---- MODULE Spec2Model ----
(***************************************************************************)
(* Model of spotwx.py: the SpotWx class (input verification, URL           *)
(* construction, retrieval and extraction of the aDataSet literal, csv     *)
(* output) and the command-line entry point.                               *)
(*                                                                         *)
(* Python values are records tagged with their run-time type.  A str that  *)
(* is only compared or concatenated is a TLA+ string; a str that is        *)
(* scanned (csv_path, the HTML script text) is a sequence of characters or *)
(* tokens.  A float is a sign and a magnitude in tenths, so that -0.0 and  *)
(* 0.0 are different values with the same truth value.                     *)
(***************************************************************************)
EXTENDS Integers, Sequences, FiniteSets, TLC

VARIABLES
    pc,             \* where the run is: main, constructed, verified, url_built,
                    \* done (returned), raised (uncaught exception), exited
    argv,           \* sys.argv[1:]
    given,          \* the arguments the constructor was called with
    csv_path, model_request, lat, lon, timezone, display,
    URL, url, model, title, zone,    \* the other attributes of the object
    response,       \* what requests.get returned
    calls,          \* the methods and library functions called so far
    file,           \* the content of the file at csv_path
    stdout,         \* the lines printed
    error,          \* the exception that ended the run
    exit_status     \* the argument of sys.exit

vars == <<pc, argv, given, csv_path, model_request, lat, lon, timezone,
          display, URL, url, model, title, zone, response, calls,
          file, stdout, error, exit_status>>

(***************************************************************************)
(* Bounds of the model.                                                    *)
(***************************************************************************)
\* largest number of forecast rows in an embedded aDataSet literal
MaxRows == 2

(***************************************************************************)
(* Python values.                                                          *)
(***************************************************************************)
None == [type |-> "NoneType"]
PyStr(s) == [type |-> "str", val |-> s]
PyFloat(n, t) == [type |-> "float", neg |-> n, tenths |-> t]
PyInt(n, a) == [type |-> "int", neg |-> n, abs |-> a]
PyList(xs) == [type |-> "list", items |-> xs]

\* isinstance(v, str) / isinstance(v, float)
IsStr(v) == v.type = "str"
IsFloat(v) == v.type = "float"

\* truth value of a Python object, as tested by "if x:"
Truthy(v) ==
    CASE v.type = "NoneType" -> FALSE
      [] v.type = "str" -> Len(v.val) # 0
      [] v.type = "float" -> v.tenths # 0
      [] v.type = "int" -> v.abs # 0

DigitStr(d) ==
    CASE d = 0 -> "0" [] d = 1 -> "1" [] d = 2 -> "2" [] d = 3 -> "3"
      [] d = 4 -> "4" [] d = 5 -> "5" [] d = 6 -> "6" [] d = 7 -> "7"
      [] d = 8 -> "8" [] d = 9 -> "9"

RECURSIVE NatStr(_)
NatStr(n) == IF n < 10 THEN DigitStr(n) ELSE NatStr(n \div 10) \o DigitStr(n % 10)

\* str(x) of a float with one decimal digit: "51.0", "-114.0", "0.0", "-0.0"
FloatStr(f) ==
    (IF f.neg THEN "-" ELSE "") \o NatStr(f.tenths \div 10) \o "."
        \o DigitStr(f.tenths % 10)

\* the text an f-string substitutes for {v}
Format(v) ==
    CASE v.type = "NoneType" -> "None"
      [] v.type = "str" -> v.val
      [] v.type = "float" -> FloatStr(v)
      [] v.type = "int" -> (IF v.neg THEN "-" ELSE "") \o NatStr(v.abs)

\* s.endswith(suffix) on character sequences
EndsWith(s, suffix) ==
    /\ Len(s) >= Len(suffix)
    /\ SubSeq(s, Len(s) - Len(suffix) + 1, Len(s)) = suffix

(***************************************************************************)
(* The tables set up by __init__.                                          *)
(***************************************************************************)
model_keys ==
    <<"hrdps", "hrdps_continental", "rdps", "gdps", "geps", "rap", "nam",
      "sref", "gfs", "gfs_uv_index", "short_meteocode", "ext_meteocode">>

model_dict(k) ==
    CASE k = "hrdps" -> "hrdps_1km_west"
      [] k = "hrdps_continental" -> "hrdps_continental"
      [] k = "rdps" -> "rdps_10km"
      [] k = "gdps" -> "gem_glb_15km"
      [] k = "geps" -> "geps_0p5_raw"
      [] k = "rap" -> "rap_awp"
      [] k = "nam" -> "nam_awphys"
      [] k = "sref" -> "sref_pgrb"
      [] k = "gfs" -> "gfs_pgrb2"
      [] k = "gfs_uv_index" -> "gfs_uv"
      [] k = "short_meteocode" -> "meteocode"
      [] k = "ext_meteocode" -> "meteocode"

title_keys == <<"short_meteocode", "ext_meteocode">>

\* the title codes exchanged
title_dict_swapped(k) ==
    CASE k = "short_meteocode" -> "FPVR54"
      [] k = "ext_meteocode" -> "FPVR14"

title_dict(k) ==
    CASE k = "short_meteocode" -> "FPVR14"
      [] k = "ext_meteocode" -> "FPVR54"

timezone_list ==
    <<"America/Vancouver", "America/Edmonton", "America/Regina",
      "America/Winnipeg", "America/Toronto", "America/Montreal",
      "America/St_Johns", "America/Halifax", "America/Goose_Bay",
      "America/Whitehorse", "America/Yellowknife", "America/Rankin_Inlet",
      "America/Iqaluit", "America/Cambridge_Bay", "America/Coral_Harbour">>

display_list == <<"table", "table_prometheus">>

Range(s) == {s[i] : i \in 1..Len(s)}

\* x in list
In(x, list) == x \in Range(list)

\* self.model_dict.get(key, None)
model_get(k) ==
    IF k.type = "str" /\ In(k.val, model_keys) THEN PyStr(model_dict(k.val)) ELSE None

\* self.title_dict.get(key, None)
title_get(k) ==
    IF k.type = "str" /\ In(k.val, title_keys) THEN PyStr(title_dict(k.val)) ELSE None

(***************************************************************************)
(* _verify_inputs: the exception it raises, or None when it returns.       *)
(***************************************************************************)
Raise(t, p) == [type |-> "error", exc |-> t, param |-> p]

CheckCsvPath(v) ==
    IF ~IsStr(v) THEN Raise("TypeError", "csv_path")
    ELSE IF ~EndsWith(v.val, <<".", "c", "s", "v">>)
         THEN Raise("ValueError", "csv_path") ELSE None

CheckModelRequest(v) ==
    IF ~IsStr(v) THEN Raise("TypeError", "model_request")
    ELSE IF ~In(v.val, model_keys)
         THEN Raise("ValueError", "model_request") ELSE None

CheckLat(v) == IF ~IsFloat(v) THEN Raise("ValueError", "lat") ELSE None

CheckLon(v) == IF ~IsFloat(v) THEN Raise("ValueError", "lon") ELSE None

CheckTimezone(v) ==
    IF ~IsStr(v) THEN Raise("TypeError", "timezone")
    ELSE IF ~In(v.val, timezone_list)
         THEN Raise("ValueError", "timezone") ELSE None

\* the display check without the membership test
CheckDisplayTypeOnly(v) ==
    IF ~IsStr(v) THEN Raise("TypeError", "display") ELSE None

CheckDisplay(v) ==
    IF ~IsStr(v) THEN Raise("TypeError", "display")
    ELSE IF ~In(v.val, display_list)
         THEN Raise("ValueError", "display") ELSE None

\* the checks with lon tested before lat
ChecksLonFirst(p) ==
    <<CheckCsvPath(p.csv_path), CheckModelRequest(p.model_request),
      CheckLon(p.lon), CheckLat(p.lat), CheckTimezone(p.timezone),
      CheckDisplay(p.display)>>

\* the checks in the order the statements of _verify_inputs run
Checks(p) ==
    <<CheckCsvPath(p.csv_path), CheckModelRequest(p.model_request),
      CheckLat(p.lat), CheckLon(p.lon), CheckTimezone(p.timezone),
      CheckDisplay(p.display)>>

FirstError(p) ==
    LET cs == Checks(p)
        bad == {i \in 1..Len(cs) : cs[i] # None}
    IN  IF bad = {} THEN None
        ELSE cs[CHOOSE i \in bad : \A j \in bad : i <= j]

verify_inputs(p) == FirstError(p)

(***************************************************************************)
(* _create_url: the url as the list of the pieces appended to it, each     *)
(* with the query key it carries ("" for the base address).                *)
(***************************************************************************)
Piece(k, t) == [key |-> k, text |-> t]

BaseUrl == "https://spotwx.com/products/grib_index.php?"

Append1(u, cond, k, t) == IF cond THEN Append(u, Piece(k, t)) ELSE u

create_url(p, m, ti, z) ==
    LET u0 == <<Piece("", BaseUrl)>>
        u1 == Append1(u0, Truthy(m), "model", "model=" \o Format(m))
        u2 == Append1(u1, Truthy(ti), "title", "&title=" \o Format(ti))
        u3 == Append1(u2, Truthy(p.lat), "lat", "&lat=" \o Format(p.lat))
        u4 == Append1(u3, Truthy(p.lon), "lon", "&lon=" \o Format(p.lon))
        u5 == Append1(u4, Truthy(z), "zone", "&zone=" \o Format(z))
        u6 == Append1(u5, Truthy(p.timezone), "tz", "&tz=" \o Format(p.timezone))
        u7 == Append1(u6, Truthy(p.display), "display",
                      "&display=" \o Format(p.display))
    IN  [type |-> "str", pieces |-> u7]

RECURSIVE Join(_)
Join(ps) == IF ps = <<>> THEN "" ELSE ps[1].text \o Join(Tail(ps))

\* the url string, and the part of it after the base address
UrlString(u) == Join(u.pieces)
QueryString(u) == Join(Tail(u.pieces))
Keys(u) == [i \in 1..(Len(u.pieces) - 1) |-> u.pieces[i + 1].key]

(***************************************************************************)
(* The HTML response.  A body is the sequence of its elements, each a tag  *)
(* name and the text inside it; a text is a sequence of tokens: the phrase *)
(* KW, single characters, and letters standing for data characters.        *)
(***************************************************************************)
KW == "var aDataSet ="
SP == " "
SQ == "'"
DQ == "\""

Element(t, s) == [tag |-> t, string |-> s]

\* re.compile(r'var aDataSet =').search(text)
HasKW(text) == \E i \in 1..Len(text) : text[i] = KW

\* soup.find('script', text=re.compile(r'var aDataSet =')): the first
\* script element whose text matches, or None
find_script(body) ==
    LET hits == {i \in 1..Len(body) :
                    body[i].tag = "script" /\ HasKW(body[i].string)}
    IN  IF hits = {} THEN None
        ELSE body[CHOOSE i \in hits : \A j \in hits : i <= j]

\* the end of the shortest \[.*?\]; that starts with the "[" at position b
LiteralEnd(text, b) ==
    LET ends == {j \in (b + 1)..(Len(text) - 1) :
                    text[j] = "]" /\ text[j + 1] = ";"}
    IN  IF ends = {} THEN 0 ELSE CHOOSE j \in ends : \A k \in ends : j <= k

\* re.search(r'var aDataSet = (\[.*?\]);', text, re.DOTALL): group(1) of the
\* leftmost match, or None when nothing matches
re_search(text) ==
    LET starts == {i \in 1..(Len(text) - 2) :
                      /\ text[i] = KW /\ text[i + 1] = SP /\ text[i + 2] = "["
                      /\ LiteralEnd(text, i + 2) # 0}
    IN  IF starts = {} THEN None
        ELSE LET i == CHOOSE a \in starts : \A b \in starts : a <= b
             IN  [type |-> "match",
                  group1 |-> SubSeq(text, i + 2, LiteralEnd(text, i + 2))]

\* json_text.replace("'", '"')
replace_quotes(text) ==
    [i \in 1..Len(text) |-> IF text[i] = SQ THEN DQ ELSE text[i]]

(***************************************************************************)
(* json.loads on a token sequence: arrays and double-quoted strings, with  *)
(* blanks between them.  A result is [ok, val, next]: whether a value was  *)
(* read, the value, and the position after it.                             *)
(***************************************************************************)
JStr(cs) == [kind |-> "str", chars |-> cs]
JList(xs) == [kind |-> "list", items |-> xs]
JFail == [ok |-> FALSE, val |-> JStr(<<>>), next |-> 0]
JOk(v, n) == [ok |-> TRUE, val |-> v, next |-> n]

RECURSIVE SkipWs(_, _)
SkipWs(t, i) == IF i <= Len(t) /\ t[i] = SP THEN SkipWs(t, i + 1) ELSE i

\* the closing quote of the string whose opening quote is at i, or 0
CloseQuote(t, i) ==
    LET qs == {k \in (i + 1)..Len(t) : t[k] = DQ}
    IN  IF qs = {} THEN 0 ELSE CHOOSE k \in qs : \A m \in qs : k <= m

RECURSIVE ParseValue(_, _)
RECURSIVE ParseItems(_, _, _)

\* the items of an array after its "[" or after a ","; acc is what was read
ParseItems(t, i, acc) ==
    LET r == ParseValue(t, i)
        n == SkipWs(t, r.next)
    IN  IF ~r.ok \/ n > Len(t) THEN JFail
        ELSE IF t[n] = "," THEN ParseItems(t, n + 1, Append(acc, r.val))
        ELSE IF t[n] = "]" THEN JOk(JList(Append(acc, r.val)), n + 1)
        ELSE JFail

ParseValue(t, i0) ==
    LET i == SkipWs(t, i0)
    IN  IF i > Len(t) THEN JFail
        ELSE IF t[i] = DQ
             THEN LET k == CloseQuote(t, i)
                  IN  IF k = 0 THEN JFail
                      ELSE JOk(JStr(SubSeq(t, i + 1, k - 1)), k + 1)
        ELSE IF t[i] = "["
             THEN LET n == SkipWs(t, i + 1)
                  IN  IF n <= Len(t) /\ t[n] = "]" THEN JOk(JList(<<>>), n + 1)
                      ELSE ParseItems(t, i + 1, <<>>)
        ELSE JFail

\* json.loads(text): the value, or None for a JSONDecodeError
json_loads(t) ==
    LET r == ParseValue(t, 1)
    IN  IF r.ok /\ SkipWs(t, r.next) > Len(t) THEN r.val ELSE None

(***************************************************************************)
(* pandas: DataFrame(data, columns=headers) and to_csv(path, index=False). *)
(***************************************************************************)
headers == <<"HOURLY", "HOUR", "TEMP", "RH", "WD", "WS", "PRECIP">>

Max(S) == CHOOSE x \in S : \A y \in S : y <= x

\* the rows of the frame, or None for the ValueError raised when the data
\* is not as wide as the headers; shorter rows are padded with missing values
DataFrame(data, columns) ==
    IF data.items = <<>> THEN [type |-> "frame", rows |-> <<>>]
    ELSE IF \E i \in 1..Len(data.items) : data.items[i].kind # "list"
         THEN None
    ELSE LET width == Max({Len(data.items[i].items) : i \in 1..Len(data.items)})
         IN  IF width # Len(columns) THEN None
             ELSE [type |-> "frame",
                   rows |-> [i \in 1..Len(data.items) |->
                       [c \in 1..width |->
                           IF c <= Len(data.items[i].items)
                           THEN data.items[i].items[c]
                           ELSE JStr(<<>>)]]]

\* the text of a cell in the csv file
Cell(v) == IF v.kind = "str" THEN v.chars ELSE <<"[", "]">>

\* the csv file with the row index as first column (index=True)
to_csv_index(df, columns) ==
    <<<<"">> \o columns>> \o
        [i \in 1..Len(df.rows) |->
            <<<<NatStr(i - 1)>>>> \o
                [c \in 1..Len(df.rows[i]) |-> Cell(df.rows[i][c])]]

\* the lines of the csv file, each the sequence of its cells
to_csv(df, columns) ==
    <<columns>> \o [i \in 1..Len(df.rows) |->
                      [c \in 1..Len(df.rows[i]) |-> Cell(df.rows[i][c])]]

(***************************************************************************)
(* _get_csv after the GET: what it calls, prints, writes and raises.       *)
(***************************************************************************)
Saved == "CSV file has been saved successfully."
NotFound == "JavaScript variable \"aDataSet\" not found in the HTML content."
Failed(status) == "Failed to retrieve data. Status code: " \o NatStr(status)

\* the file a run has written
File(ls) == [type |-> "file", lines |-> ls]

Outcome(c, o, f, e) == [calls |-> c, out |-> o, file |-> f, error |-> e]

\* every status below 500 taken for a success
SuccessBelow500(resp) == resp.status_code < 500

\* response.status_code == 200
Success(resp) == resp.status_code = 200

get_csv(resp) ==
    IF Success(resp)
    THEN LET script == find_script(resp.text)
         IN  IF script # None
             THEN LET m == re_search(script.string)
                  IN  IF m = None
                      THEN Outcome(<<"BeautifulSoup", "soup.find", "re.search">>,
                                   <<>>, None, Raise("AttributeError", "group"))
                      ELSE LET data == json_loads(replace_quotes(m.group1))
                           IN  IF data = None
                               THEN Outcome(<<"BeautifulSoup", "soup.find",
                                              "re.search", "json.loads">>,
                                            <<>>, None,
                                            Raise("JSONDecodeError", "json_text"))
                               ELSE LET df == DataFrame(data, headers)
                                    IN  IF df = None
                                        THEN Outcome(<<"BeautifulSoup", "soup.find",
                                                 "re.search", "json.loads",
                                                 "pd.DataFrame">>,
                                                 <<>>, None,
                                                 Raise("ValueError", "data"))
                                        ELSE Outcome(<<"BeautifulSoup", "soup.find",
                                                 "re.search", "json.loads",
                                                 "pd.DataFrame", "df.to_csv">>,
                                                 <<Saved>>,
                                                 File(to_csv(df, headers)), None)
             ELSE Outcome(<<"BeautifulSoup", "soup.find">>, <<NotFound>>,
                          None, None)
    ELSE Outcome(<<>>, <<Failed(resp.status_code)>>, None, None)

(***************************************************************************)
(* The inputs explored.                                                    *)
(***************************************************************************)
Params(c, m, la, lo, tz, d) ==
    [csv_path |-> c, model_request |-> m, lat |-> la, lon |-> lo,
     timezone |-> tz, display |-> d]

OutCsv == <<"o", ".", "c", "s", "v">>
OutTxt == <<"o", ".", "t", "x", "t">>

CsvPaths == {PyStr(OutCsv), PyStr(OutTxt), None}
ModelRequests ==
    {PyStr("gfs"), PyStr("short_meteocode"), PyStr("ext_meteocode"),
     PyStr("ecmwf"), PyInt(FALSE, 7)}
Lats ==
    {PyFloat(FALSE, 510), PyFloat(FALSE, 0), PyFloat(TRUE, 5),
     PyInt(FALSE, 51), PyStr("51.0"), None}
Lons == {PyFloat(TRUE, 1140), PyFloat(FALSE, 0), PyInt(TRUE, 114), PyStr("-114.0")}
Timezones ==
    {PyStr("America/Edmonton"), PyStr("UTC"), None}
Displays == {PyStr("table"), PyStr("table_prometheus"), PyStr("chart"), None}

\* command lines: five, six or seven words
ArgWords ==
    [csv_path : {OutCsv, OutTxt}, model_request : {"gfs", "ecmwf"},
     lat : {"51.0", "north"}, lon : {"-114.0"},
     timezone : {"America/Edmonton", "UTC"}, display : {"table", "chart"}]

Argv6(w) ==
    <<PyStr(w.csv_path), PyStr(w.model_request), PyStr(w.lat), PyStr(w.lon),
      PyStr(w.timezone), PyStr(w.display)>>

Argvs ==
    {<<>>} \cup
    UNION {{Argv6(w), SubSeq(Argv6(w), 1, 5), Append(Argv6(w), PyStr("extra"))} :
              w \in ArgWords}

\* forecast rows, each the sequence of its fields
Row1 == <<<<"a">>, <<"b">>, <<"c">>, <<"d">>, <<"e">>, <<"f">>, <<"g">>>>
Row2 == <<<<"h">>, <<"i">>, <<"j">>, <<"k">>, <<"l">>, <<"m">>, <<"n">>>>
\* a field that holds a double quote
RowQuote == [Row1 EXCEPT ![3] = <<"x", DQ, "y">>]
\* a field that holds the characters ];
RowEnd == [Row2 EXCEPT ![2] = <<"x", "]", ";">>]
\* six fields
RowShort == SubSeq(Row1, 1, 6)

SampleRows == {Row1, Row2, RowQuote, RowEnd, RowShort}

RowSeqs == UNION {[1..n -> SampleRows] : n \in 0..MaxRows}

RECURSIVE JoinSeqs(_, _)
\* the sequences of ss one after the other, with sep between them
JoinSeqs(ss, sep) ==
    IF ss = <<>> THEN <<>>
    ELSE IF Len(ss) = 1 THEN ss[1]
    ELSE ss[1] \o sep \o JoinSeqs(Tail(ss), sep)

\* a row as the page writes it: ['a','b',...]
RowText(row) ==
    <<"[">> \o JoinSeqs([i \in 1..Len(row) |-> <<SQ>> \o row[i] \o <<SQ>>], <<",">>)
        \o <<"]">>

\* the array literal of the rows: [[...],[...]]
Literal(rows) ==
    <<"[">> \o JoinSeqs([i \in 1..Len(rows) |-> RowText(rows[i])], <<",">>)
        \o <<"]">>

Assignment(rows) == <<KW, SP>> \o Literal(rows) \o <<";">>

\* the bodies of a page that embeds the rows, well or badly
BodiesOf(rows) ==
    { <<Element("script", Assignment(rows))>>,
      <<Element("script", <<"x", ";", SP>> \o Assignment(rows) \o <<SP, "y", ";">>)>>,
      <<Element("script", <<"x", ";">>), Element("script", Assignment(rows))>>,
      <<Element("script", <<KW>> \o Literal(rows) \o <<";">>)>>,
      <<Element("script", <<KW, SP>> \o Literal(rows))>> }

\* bodies without the literal
BareBodies ==
    { <<>>,
      <<Element("script", <<"x", ";">>)>>,
      <<Element("p", Assignment(<<Row1>>))>>,
      <<Element("script", <<KW, SP, "x", ";">>)>> }

Bodies == BareBodies \cup UNION {BodiesOf(rows) : rows \in RowSeqs}

Response(st, b) == [type |-> "response", status_code |-> st, text |-> b]

Responses ==
    {Response(200, b) : b \in Bodies}
        \cup {Response(st, b) : st \in {404, 500},
                                b \in {<<>>, <<Element("script", Assignment(<<Row1>>))>>}}

(***************************************************************************)
(* The run.                                                                *)
(***************************************************************************)
Unset == [type |-> "unset"]

Usage == "Six parameters are required to request a SpotWx forecast dataset (as csv):\n[csv_path, model_request, lat, lon, display]."

Fields == Params(csv_path, model_request, lat, lon, timezone, display)

\* the state __init__ leaves the object in
Constructed(p) ==
    /\ given = p
    /\ csv_path = p.csv_path
    /\ model_request = p.model_request
    /\ lat = p.lat
    /\ lon = p.lon
    /\ timezone = p.timezone
    /\ display = p.display
    /\ URL = None
    /\ title = None
    /\ zone = None
    /\ url = Unset
    /\ model = Unset

Quiet ==
    /\ response = None
    /\ calls = <<>>
    /\ file = None
    /\ stdout = <<>>
    /\ error = None
    /\ exit_status = None

\* either the script is started with a command line, or the class is
\* constructed by a caller
Init ==
    /\ Quiet
    /\ \/ /\ pc = "main"
          /\ \E a \in Argvs : argv = PyList(a)
          /\ given = Unset /\ csv_path = Unset /\ model_request = Unset
          /\ lat = Unset /\ lon = Unset /\ timezone = Unset /\ display = Unset
          /\ URL = Unset /\ title = Unset /\ zone = Unset
          /\ url = Unset /\ model = Unset
       \/ /\ pc = "constructed"
          /\ argv = Unset
          /\ \E c \in CsvPaths, m \in ModelRequests, la \in Lats, lo \in Lons,
                tz \in Timezones, d \in Displays :
                Constructed(Params(c, m, la, lo, tz, d))

\* six parameters or more accepted
ArgCountAtLeast(a) == Len(a.items) >= 6

\* len(sys.argv[1:]) != 6, negated
ArgCountOk(a) == Len(a.items) = 6

\* __main__ with a wrong number of parameters
MainUsage ==
    /\ pc = "main"
    /\ ~ArgCountOk(argv)
    /\ stdout' = Append(stdout, Usage)
    /\ exit_status' = PyInt(FALSE, 1)
    /\ pc' = "exited"
    /\ UNCHANGED <<argv, given, csv_path, model_request, lat, lon, timezone,
                   display, URL, url, model, title, zone, response, calls,
                   file, error>>

\* __main__ with six parameters: the words are passed on as they are
MainRun ==
    /\ pc = "main"
    /\ ArgCountOk(argv)
    /\ given' = Params(argv.items[1], argv.items[2], argv.items[3],
                       argv.items[4], argv.items[5], argv.items[6])
    /\ csv_path' = argv.items[1]
    /\ model_request' = argv.items[2]
    /\ lat' = argv.items[3]
    /\ lon' = argv.items[4]
    /\ timezone' = argv.items[5]
    /\ display' = argv.items[6]
    /\ URL' = None /\ title' = None /\ zone' = None
    /\ pc' = "constructed"
    /\ UNCHANGED <<argv, url, model, response, calls, file, stdout, error,
                   exit_status>>

\* getSpotWx, first step
VerifyInputs ==
    /\ pc = "constructed"
    /\ calls' = Append(calls, "_verify_inputs")
    /\ LET e == verify_inputs(Fields)
       IN  IF e = None
           THEN pc' = "verified" /\ error' = error
           ELSE pc' = "raised" /\ error' = e
    /\ UNCHANGED <<argv, given, csv_path, model_request, lat, lon, timezone,
                   display, URL, url, model, title, zone, response, file,
                   stdout, exit_status>>

\* getSpotWx, second step
CreateUrl ==
    /\ pc = "verified"
    /\ calls' = Append(calls, "_create_url")
    /\ model' = model_get(model_request)
    /\ title' = title_get(model_request)
    /\ url' = create_url(Fields, model', title', zone)
    /\ pc' = "url_built"
    /\ UNCHANGED <<argv, given, csv_path, model_request, lat, lon, timezone,
                   display, URL, zone, response, file, stdout, error,
                   exit_status>>

\* getSpotWx, third step: the GET and everything _get_csv does with the answer
GetCsv ==
    /\ pc = "url_built"
    /\ \E resp \in Responses :
          LET o == get_csv(resp)
          IN  /\ response' = resp
              /\ calls' = calls \o <<"_get_csv", "requests.get">> \o o.calls
              /\ stdout' = stdout \o o.out
              /\ file' = IF o.file = None THEN file ELSE o.file
              /\ error' = o.error
              /\ pc' = IF o.error = None THEN "done" ELSE "raised"
    /\ UNCHANGED <<argv, given, csv_path, model_request, lat, lon, timezone,
                   display, URL, url, model, title, zone, exit_status>>

Next == MainUsage \/ MainRun \/ VerifyInputs \/ CreateUrl \/ GetCsv

Spec == Init /\ [][Next]_vars

\* how often f was called
Count(f) == Cardinality({i \in 1..Len(calls) : calls[i] = f})

(***************************************************************************)
(* What the claims speak of.                                               *)
(***************************************************************************)
GetsIssued == Count("requests.get")
FilesWritten == Count("df.to_csv")

SupportedModels ==
    {"hrdps", "hrdps_continental", "rdps", "gdps", "geps", "rap", "nam", "sref",
     "gfs", "gfs_uv_index", "short_meteocode", "ext_meteocode"}

BadCsvPath(v) == ~(v.type = "str" /\ EndsWith(v.val, <<".", "c", "s", "v">>))
BadModel(v) == ~(v.type = "str" /\ v.val \in SupportedModels)
NotNumeric(v) == v.type \notin {"float", "int"}
NotFloat(v) == v.type # "float"
BadTimezone(v) == ~(v.type = "str" /\ v.val \in Range(timezone_list))
BadDisplay(v) == ~(v.type = "str" /\ v.val \in {"table", "table_prometheus"})

ParamNames ==
    <<"csv_path", "model_request", "lat", "lon", "timezone", "display">>

\* a lat or lon is invalid: when it is no float (strict), or when it is not
\* numeric
BadCoord(v, strict) == IF strict THEN NotFloat(v) ELSE NotNumeric(v)

\* which parameters are invalid, in the order of ParamNames
Invalid(p, strict) ==
    <<BadCsvPath(p.csv_path), BadModel(p.model_request), BadCoord(p.lat, strict),
      BadCoord(p.lon, strict), BadTimezone(p.timezone), BadDisplay(p.display)>>

AnyInvalid(p, strict) == \E i \in 1..6 : Invalid(p, strict)[i]

FirstInvalid(p, strict) ==
    ParamNames[CHOOSE i \in 1..6 :
        /\ Invalid(p, strict)[i]
        /\ \A j \in 1..(i - 1) : ~Invalid(p, strict)[j]]

\* the position of the first call of f
FirstCall(f) == CHOOSE i \in 1..Len(calls) : calls[i] = f /\ \A j \in 1..(i - 1) : calls[j] # f

\* C1: a run whose parameters include an invalid one ends in a raised error
\* with no GET issued, no URL built and no file written; a GET is issued
\* only after _verify_inputs has returned without raising.
C1_ValidationBeforeGet ==
    /\ (given # Unset /\ AnyInvalid(given, FALSE)) =>
          /\ pc \in {"constructed", "raised"}
          /\ pc = "raised" => error # None /\ Count("_verify_inputs") = 1
          /\ GetsIssued = 0
          /\ url = Unset
          /\ file = None
    /\ GetsIssued > 0 =>
          /\ Count("_verify_inputs") = 1
          /\ FirstCall("_verify_inputs") < FirstCall("requests.get")
          /\ ~AnyInvalid(given, FALSE)

C1_Witness ==
    /\ pc = "raised"
    /\ error = Raise("ValueError", "display")
    /\ ~BadCsvPath(given.csv_path) /\ given.lat = PyFloat(FALSE, 510)
    /\ GetsIssued = 0

\* C2 as stated: every run with an invalid parameter (a lat or lon being
\* invalid when it is not numeric) raises an error that names the first
\* invalid parameter in the order csv_path, model_request, lat, lon,
\* timezone, display.
C2_Original ==
    (given # Unset /\ pc # "constructed" /\ AnyInvalid(given, FALSE)) =>
        /\ pc = "raised"
        /\ error.param = FirstInvalid(given, FALSE)

\* C2 amended: the same, a lat or lon being invalid when it is not a float
\* (an int is rejected too); and a run with no invalid parameter passes
\* the verification.
C2_Amended ==
    (given # Unset /\ pc # "constructed") =>
        IF AnyInvalid(given, TRUE)
        THEN /\ pc = "raised"
             /\ error.exc \in {"TypeError", "ValueError"}
             /\ error.param = FirstInvalid(given, TRUE)
        ELSE "_create_url" \in Range(calls) \/ pc = "verified"

C2_Witness ==
    /\ pc = "raised"
    /\ given.lat = PyInt(FALSE, 51)
    /\ given.lon = PyStr("-114.0")
    /\ BadDisplay(given.display)
    /\ error = Raise("ValueError", "lat")

\* C3: the URL of a validated request holds the keys model, lat, lon, tz and
\* display, in this order, with title after model and zone after lon as the
\* only keys that may be left out.
C3_Original ==
    url # Unset =>
        Keys(url) \in
            { <<"model", "lat", "lon", "tz", "display">>,
              <<"model", "title", "lat", "lon", "tz", "display">>,
              <<"model", "lat", "lon", "zone", "tz", "display">>,
              <<"model", "title", "lat", "lon", "zone", "tz", "display">> }

HasKey(u, k) == \E i \in 1..Len(u.pieces) : u.pieces[i].key = k
PieceOf(u, k) == u.pieces[CHOOSE i \in 1..Len(u.pieces) : u.pieces[i].key = k]

GfsExample ==
    Params(PyStr(OutCsv), PyStr("gfs"), PyFloat(FALSE, 510), PyFloat(TRUE, 1140),
           PyStr("America/Edmonton"), PyStr("table"))

\* C4: the URL's model value is the registry code of the requested model;
\* it has a title exactly for short_meteocode (FPVR14) and ext_meteocode
\* (FPVR54) and never a zone; the gfs example gives exactly the query string
\* of the specification; the URL is a function of the six parameters alone.
C4_ModelTitleZone ==
    url # Unset =>
        /\ HasKey(url, "model")
        /\ PieceOf(url, "model").text = "model=" \o model_dict(given.model_request.val)
        /\ HasKey(url, "title") <=>
              given.model_request.val \in {"short_meteocode", "ext_meteocode"}
        /\ given.model_request.val = "short_meteocode" =>
              PieceOf(url, "title").text = "&title=FPVR14"
        /\ given.model_request.val = "ext_meteocode" =>
              PieceOf(url, "title").text = "&title=FPVR54"
        /\ ~HasKey(url, "zone")
        /\ given = GfsExample =>
              QueryString(url) =
                  "model=gfs_pgrb2&lat=51.0&lon=-114.0&tz=America/Edmonton&display=table"
        /\ url = create_url(given, model_get(given.model_request),
                            title_get(given.model_request), None)

C4_Witness ==
    /\ pc = "done"
    /\ given.model_request = PyStr("ext_meteocode")
    /\ HasKey(url, "title")
    /\ GetsIssued = 1

\* C5: after a GET that returned a status other than 200 the run has
\* printed the status code, has called nothing after the one GET, has
\* written no file and has returned without raising.
C5_NonSuccessStatus ==
    (response # None /\ response.status_code # 200) =>
        /\ pc = "done"
        /\ error = None
        /\ stdout = <<IF response.status_code = 404
                      THEN "Failed to retrieve data. Status code: 404"
                      ELSE "Failed to retrieve data. Status code: 500">>
        /\ GetsIssued = 1
        /\ calls[Len(calls)] = "requests.get"
        /\ FilesWritten = 0
        /\ file = None

C5_Witness ==
    /\ pc = "done"
    /\ response # None
    /\ response.status_code = 404
    /\ response.text = <<Element("script", Assignment(<<Row1>>))>>
    /\ file = None

\* a text in which KW is followed, after blanks, by a bracketed literal
\* that a ";" ends
AssignsLiteral(text) ==
    \E i \in 1..Len(text) :
        /\ text[i] = KW
        /\ LET b == SkipWs(text, i + 1)
           IN  /\ b <= Len(text)
               /\ text[b] = "["
               /\ \E j \in (b + 1)..(Len(text) - 1) : text[j] = "]" /\ text[j + 1] = ";"

EmbedsLiteral(body) ==
    \E e \in 1..Len(body) : body[e].tag = "script" /\ AssignsLiteral(body[e].string)

\* C6: after a GET that returned 200 with a body that embeds no array
\* literal assigned to aDataSet, the run has printed the not-found message,
\* has written no file and has returned without raising.
C6_Original ==
    (response # None /\ response.status_code = 200 /\ ~EmbedsLiteral(response.text)) =>
        /\ pc = "done"
        /\ error = None
        /\ stdout = <<NotFound>>
        /\ NotFound # Failed(response.status_code)
        /\ file = None

\* a row of seven fields, none with a quote or with ];
CleanRow(row) ==
    /\ Len(row) = 7
    /\ \A c \in 1..Len(row) :
          /\ \A k \in 1..Len(row[c]) : row[c][k] \notin {SQ, DQ}
          /\ \A k \in 1..(Len(row[c]) - 1) : ~(row[c][k] = "]" /\ row[c][k + 1] = ";")

\* text holds part at some place
Contains(text, part) ==
    \E i \in 0..(Len(text) - Len(part)) : SubSeq(text, i + 1, i + Len(part)) = part

\* the body assigns the literal of rows to aDataSet in a script, and
\* mentions aDataSet in no other script
Embeds(body, rows) ==
    /\ \E e \in 1..Len(body) :
          /\ body[e].tag = "script"
          /\ Contains(body[e].string, Assignment(rows))
          /\ \A o \in 1..Len(body) :
                (o # e /\ body[o].tag = "script") => ~HasKW(body[o].string)

C8_UsageExit ==
    (argv # Unset /\ Len(argv.items) # 6) =>
        /\ pc \in {"main", "exited"}
        /\ given = Unset
        /\ calls = <<>>
        /\ url = Unset
        /\ response = None
        /\ file = None
        /\ error = None
        /\ pc = "exited" =>
              /\ stdout = <<Usage>>
              /\ exit_status.type = "int"
              /\ exit_status.abs # 0

C8_Witness ==
    /\ pc = "exited"
    /\ argv # Unset
    /\ Len(argv.items) = 7
    /\ stdout = <<Usage>>

\* six well-formed words on the command line
WellFormedArgv(a) ==
    /\ Len(a.items) = 6
    /\ ~BadCsvPath(a.items[1])
    /\ ~BadModel(a.items[2])
    /\ a.items[3] = PyStr("51.0")
    /\ a.items[4] = PyStr("-114.0")
    /\ ~BadTimezone(a.items[5])
    /\ ~BadDisplay(a.items[6])

\* C9: a run started with six well-formed words passes the verification
\* and reaches the GET: it never ends in an error raised before the GET.
C9_Original ==
    (argv # Unset /\ WellFormedArgv(argv)) => ~(pc = "raised" /\ GetsIssued = 0)

\* the script that holds aDataSet has been found
DataBlockFound(body) ==
    \E e \in 1..Len(body) : body[e].tag = "script" /\ HasKW(body[e].string)

\* C10: a run issues at most one GET and writes the file at most once; it
\* writes only after a GET that returned 200 and found the data block, and
\* once the run has ended with both, it has written exactly once; the six
\* parameters are as they were given.
C10_Original ==
    /\ GetsIssued <= 1
    /\ FilesWritten <= 1
    /\ (FilesWritten = 1) <=> (file # None)
    /\ FilesWritten >= 1 =>
          /\ response # None
          /\ response.status_code = 200
          /\ DataBlockFound(response.text)
    /\ (/\ pc \in {"done", "raised"}
        /\ response # None
        /\ response.status_code = 200
        /\ DataBlockFound(response.text)) => FilesWritten = 1
    /\ given # Unset => Fields = given

====
